---- MODULE Spec2Model ----
(***************************************************************************)
(* Model of the custom-hardware C++ code generator of oopsy                *)
(* (source/custom_hardware/custom_hardware.js, latest revision).           *)
(*                                                                         *)
(* A hardware description is a function from field names to lists of       *)
(* entries; a field that is not in its domain is a missing (undefined)     *)
(* list.  An entry is a record; an optional field (labels, flip, invert,   *)
(* driver_name) is a field that may be absent from its domain.  Generated  *)
(* text is modelled as the very strings the JavaScript builds: a generator *)
(* builds its `code` array of lines and joins it with its separator.       *)
(***************************************************************************)
EXTENDS Integers, Sequences, FiniteSets, TLC

VARIABLES hd, last, prev

vars == <<hd, last, prev>>

(***************************************************************************)
(* Bounds of the model.                                                    *)
(***************************************************************************)
\* longest list of entries tried for a kind
MaxLen == 2
\* CV-output lists are tried up to MaxLen + ExtraCvOut entries (more than 2)
ExtraCvOut == 1

(***************************************************************************)
(* JavaScript values and string helpers.                                   *)
(***************************************************************************)
Context == {"INCLUDE", "DECLARATION", "INITIALIZATION", "PROCESSING"}

\* an argument that is undefined, and one that is the array v
Undefined == [def |-> FALSE]
Some(v) == [def |-> TRUE, val |-> v]

\* hardware_description.<field>
Field(description, field) ==
  IF field \in DOMAIN description THEN Some(description[field]) ELSE Undefined

AbsentOnlyWhenMissing(list) == ~list.def

\* !list || !list.length
Absent(list) == ~list.def \/ Len(list.val) = 0

\* list || []
OrEmpty(list) == IF list.def THEN list.val ELSE <<>>

\* ${entry.field} for a numeric field
Num(entry, field) ==
  IF field \in DOMAIN entry THEN ToString(entry[field]) ELSE "undefined"

\* ${entry.field} for a string field
Text(entry, field) ==
  IF field \in DOMAIN entry THEN entry[field] ELSE "undefined"

FlagUncoerced(entry, field) ==
  IF field \notin DOMAIN entry THEN "undefined"
  ELSE IF entry[field] THEN "true" ELSE "false"

\* ${!!entry.field}
Flag(entry, field) ==
  IF field \in DOMAIN entry /\ entry[field] THEN "true" ELSE "false"

\* an element of an array being joined: undefined joins as the empty string
JoinElem(entry, field) ==
  IF field \in DOMAIN entry THEN entry[field] ELSE ""

\* Array.prototype.join: elements i..j of the array with sep between them
RECURSIVE JoinRange(_, _, _, _)
JoinRange(code, i, j, sep) ==
  IF i = j THEN code[i]
  ELSE LET mid == (i + j) \div 2
       IN  JoinRange(code, i, mid, sep) \o sep
             \o JoinRange(code, mid + 1, j, sep)

Join(code, sep) ==
  IF Len(code) = 0 THEN "" ELSE JoinRange(code, 1, Len(code), sep)

DeclSep == "\n    "
InitSep == "\n        "

(***************************************************************************)
(* Label aliases: the forEach over entries and over each entry's labels    *)
(* that every array generator runs in its DECLARATION branch.              *)
(***************************************************************************)
EntryAliasesNoIndex(entry, idx, type, array) ==
  IF "labels" \in DOMAIN entry
  THEN [j \in 1..Len(entry.labels) |->
          type \o "& " \o entry.labels[j] \o " = " \o array \o "[0];"]
  ELSE <<>>

EntryAliases(entry, idx, type, array) ==
  IF "labels" \in DOMAIN entry
  THEN [j \in 1..Len(entry.labels) |->
          type \o "& " \o entry.labels[j] \o " = " \o array
               \o "[" \o ToString(idx) \o "];"]
  ELSE <<>>

RECURSIVE AliasesFromOne(_, _, _, _)
AliasesFromOne(list, k, type, array) ==
  IF k > Len(list) THEN <<>>
  ELSE EntryAliases(list[k], k, type, array)
         \o AliasesFromOne(list, k + 1, type, array)

RECURSIVE AliasesFrom(_, _, _, _)
AliasesFrom(list, k, type, array) ==
  IF k > Len(list) THEN <<>>
  ELSE EntryAliases(list[k], k - 1, type, array)
         \o AliasesFrom(list, k + 1, type, array)

LabelAliases(list, type, array) == AliasesFrom(list, 1, type, array)

(***************************************************************************)
(* generateAnalogControls                                                  *)
(***************************************************************************)
AllControlsCvFirst(analog_controls, cv_inputs) ==
  OrEmpty(cv_inputs) \o OrEmpty(analog_controls)

AllControls(analog_controls, cv_inputs) ==
  OrEmpty(analog_controls) \o OrEmpty(cv_inputs)

AnalogControlsCode(analog_controls, cv_inputs, context) ==
  LET all_controls == AllControls(analog_controls, cv_inputs)
      n == Len(all_controls)
  IN  IF n = 0 THEN <<>>
      ELSE IF context = "DECLARATION" THEN
        <<"// analog_controls declaration",
          "AnalogControl controls[" \o ToString(n) \o "];">>
          \o LabelAliases(all_controls, "AnalogControl", "controls")
      ELSE IF context = "INITIALIZATION" THEN
        <<"// BEGIN - analog_controls initialization",
          "AdcChannelConfig cfg[" \o ToString(n) \o "];">>
          \o [i \in 1..n |->
                "cfg[" \o ToString(i - 1) \o "].InitSingle(seed.GetPin("
                  \o Num(all_controls[i], "pin") \o "));"]
          \o <<"seed.adc.Init(cfg, " \o ToString(n) \o ");">>
          \o [i \in 1..n |->
                "controls[" \o ToString(i - 1) \o "].Init(seed.adc.GetPtr("
                  \o ToString(i - 1) \o "), seed.AudioCallbackRate(), "
                  \o Flag(all_controls[i], "flip") \o ", "
                  \o Flag(all_controls[i], "invert") \o ");"]
          \o <<"seed.adc.Start();",
               "// END - analog_controls initialization">>
      ELSE IF context = "PROCESSING" THEN
        <<"// process analog_controls">>
          \o [i \in 1..n |-> "controls[" \o ToString(i - 1) \o "].Process();"]
      ELSE <<>>

generateAnalogControls(analog_controls, cv_inputs, context) ==
  Join(AnalogControlsCode(analog_controls, cv_inputs, context),
       IF context = "DECLARATION" THEN DeclSep ELSE InitSep)

(***************************************************************************)
(* generateCvOutputs                                                       *)
(***************************************************************************)
\* the two DAC channels of the Daisy Seed
DacChannels == 2

\* cv_outputs.slice(0, 2) when there are more than two entries
Truncated(cv_outputs) ==
  IF Len(cv_outputs) > DacChannels THEN SubSeq(cv_outputs, 1, DacChannels)
  ELSE cv_outputs

CvOutputsBranchesPerEntry(cv_outputs, context) ==
  IF context = "INITIALIZATION" THEN
    <<"// BEGIN - cv_outputs initialization">>
      \o [i \in 1..Len(cv_outputs) |->
            "seed.dac.WriteValue(DacHandle::Channel::"
              \o Num(cv_outputs[i], "pin") \o ", 0);"]
      \o <<"// END - cv_outputs initialization">>
  ELSE <<>>

\* the branches after the truncation: the reassigned cv_outputs is never read
CvOutputsBranches(cv_outputs, context) ==
  IF context = "INITIALIZATION" THEN
    <<"// BEGIN - cv_outputs initialization",
      "DacHandle::Config dac_cfg;",
      "dac_cfg.bitdepth   = DacHandle::BitDepth::BITS_12;",
      "dac_cfg.buff_state = DacHandle::BufferState::ENABLED;",
      "dac_cfg.mode       = DacHandle::Mode::POLLING;",
      "dac_cfg.chn        = DacHandle::Channel::BOTH;",
      "seed.dac.Init(dac_cfg);",
      "seed.dac.WriteValue(DacHandle::Channel::BOTH, 0);",
      "// END - cv_outputs initialization">>
  ELSE <<>>

CvOutputsCode(cv_outputs, context) ==
  IF Absent(cv_outputs) THEN <<>>
  ELSE CvOutputsBranches(Truncated(cv_outputs.val), context)

generateCvOutputs(cv_outputs, context) ==
  Join(CvOutputsCode(cv_outputs, context), InitSep)

(***************************************************************************)
(* generateEncoders                                                        *)
(***************************************************************************)
EncodersCode(encoders, context) ==
  IF Absent(encoders) THEN <<>>
  ELSE LET list == encoders.val
           n == Len(list)
       IN  IF context = "DECLARATION" THEN
             <<"//  encoders declaration",
               "Encoder encoders[" \o ToString(n) \o "];",
               "Encoder& encoder = encoders[0];">>
               \o LabelAliases(list, "Encoder", "encoders")
           ELSE IF context = "INITIALIZATION" THEN
             <<"// BEGIN - encoders initialization">>
               \o [i \in 1..n |->
                     "encoders[" \o ToString(i - 1) \o "].Init(seed.GetPin("
                       \o Num(list[i], "pin_a") \o "), seed.GetPin("
                       \o Num(list[i], "pin_b") \o "), seed.GetPin("
                       \o Num(list[i], "pin_switch")
                       \o "), seed.AudioCallbackRate());"]
               \o <<"// END - encoders initialization">>
           ELSE IF context = "PROCESSING" THEN
             <<"// process encoders">>
               \o [i \in 1..n |->
                     "encoders[" \o ToString(i - 1) \o "].Debounce();"]
           ELSE <<>>

generateEncoders(encoders, context) ==
  Join(EncodersCode(encoders, context),
       IF context = "DECLARATION" THEN DeclSep ELSE InitSep)

(***************************************************************************)
(* generateSwitches                                                        *)
(***************************************************************************)
SwitchesCode(switches, context) ==
  IF Absent(switches) THEN <<>>
  ELSE LET list == switches.val
           n == Len(list)
       IN  IF context = "DECLARATION" THEN
             <<"//  switches declaration",
               "Switch switches[" \o ToString(n) \o "];">>
               \o LabelAliases(list, "Switch", "switches")
           ELSE IF context = "INITIALIZATION" THEN
             <<"// BEGIN - switches initialization">>
               \o [i \in 1..n |->
                     "switches[" \o ToString(i - 1) \o "].Init(seed.GetPin("
                       \o Num(list[i], "pin")
                       \o "), seed.AudioCallbackRate(), Switch::Type::"
                       \o Text(list[i], "type") \o ", Switch::Polarity::"
                       \o Text(list[i], "polarity") \o ", Switch::Pull::"
                       \o Text(list[i], "pull") \o ");"]
               \o <<"// END - switches initialization">>
           ELSE IF context = "PROCESSING" THEN
             <<"// process switches">>
               \o [i \in 1..n |->
                     "switches[" \o ToString(i - 1) \o "].Debounce();"]
           ELSE <<>>

generateSwitches(switches, context) ==
  Join(SwitchesCode(switches, context),
       IF context = "DECLARATION" THEN DeclSep ELSE InitSep)

(***************************************************************************)
(* generateLeds                                                            *)
(***************************************************************************)
LedsCode(leds, context) ==
  IF Absent(leds) THEN <<>>
  ELSE LET list == leds.val
           n == Len(list)
       IN  IF context = "DECLARATION" THEN
             <<"//  leds declaration",
               "Led leds[" \o ToString(n) \o "];">>
               \o LabelAliases(list, "Led", "leds")
           ELSE IF context = "INITIALIZATION" THEN
             <<"// BEGIN - leds initialization">>
               \o [i \in 1..n |->
                     "leds[" \o ToString(i - 1) \o "].Init(seed.GetPin("
                       \o Num(list[i], "pin") \o "), "
                       \o Flag(list[i], "invert") \o ");"]
               \o <<"// END - leds initialization">>
           ELSE IF context = "PROCESSING" THEN
             <<"// process leds">>
               \o [i \in 1..n |-> "leds[" \o ToString(i - 1) \o "].Update();"]
           ELSE <<>>

generateLeds(leds, context) ==
  Join(LedsCode(leds, context),
       IF context = "DECLARATION" THEN DeclSep ELSE InitSep)

(***************************************************************************)
(* generateRgbLeds                                                         *)
(***************************************************************************)
RgbLedsCode(rgb_leds, context) ==
  IF Absent(rgb_leds) THEN <<>>
  ELSE LET list == rgb_leds.val
           n == Len(list)
       IN  IF context = "DECLARATION" THEN
             <<"//  rgb_leds declaration",
               "RgbLed rgb_leds[" \o ToString(n) \o "];">>
               \o LabelAliases(list, "RgbLed", "rgb_leds")
           ELSE IF context = "INITIALIZATION" THEN
             <<"// BEGIN - rgb_leds initialization">>
               \o [i \in 1..n |->
                     "rgb_leds[" \o ToString(i - 1) \o "].Init(seed.GetPin("
                       \o Num(list[i], "pin_r") \o "), seed.GetPin("
                       \o Num(list[i], "pin_g") \o "), seed.GetPin("
                       \o Num(list[i], "pin_b") \o "), "
                       \o Flag(list[i], "invert") \o ");"]
               \o <<"// END - rgb_leds initialization">>
           ELSE IF context = "PROCESSING" THEN
             <<"// process rgb_leds">>
               \o [i \in 1..n |->
                     "rgb_leds[" \o ToString(i - 1) \o "].Update();"]
           ELSE <<>>

generateRgbLeds(rgb_leds, context) ==
  Join(RgbLedsCode(rgb_leds, context),
       IF context = "DECLARATION" THEN DeclSep ELSE InitSep)

(***************************************************************************)
(* generateGateInputs, generateGateOutputs, generateMidiHandlers           *)
(***************************************************************************)
GateInputsCode(gate_inputs, context) ==
  IF Absent(gate_inputs) THEN <<>>
  ELSE LET list == gate_inputs.val
           n == Len(list)
       IN  IF context = "DECLARATION" THEN
             <<"//gate_inputs declaration",
               "GateIn gate_inputs[" \o ToString(n) \o "];">>
               \o LabelAliases(list, "GateIn", "gate_inputs")
           ELSE IF context = "INITIALIZATION" THEN
             <<"// BEGIN - gate_inputs initialization",
               "dsy_gpio_pin gate_input_pin;">>
               \o [k \in 1..(n + n) |->
                     IF k % 2 = 1
                     THEN "gate_input_pin = seed.GetPin("
                            \o Num(list[(k + 1) \div 2], "pin") \o ");"
                     ELSE "gate_inputs[" \o ToString((k \div 2) - 1)
                            \o "].Init(&gate_input_pin);"]
               \o <<"// END -  gate_inputs initialization">>
           ELSE <<>>

generateGateInputs(gate_inputs, context) ==
  Join(GateInputsCode(gate_inputs, context),
       IF context = "DECLARATION" THEN DeclSep ELSE InitSep)

generateGateOutputsEmitting(gate_outputs, context) ==
  IF Absent(gate_outputs) THEN "" ELSE "// gate_outputs"

generateGateOutputs(gate_outputs, context) == ""

generateMidiHandlers(gate_outputs, context) == ""

(***************************************************************************)
(* generateOledDisplays                                                    *)
(***************************************************************************)
DriverNameAppended(oled_display) ==
  JoinElem(oled_display, "driver_name") \o JoinElem(oled_display, "driver")
    \o JoinElem(oled_display, "transport")
    \o JoinElem(oled_display, "dimensions") \o "Driver"

DriverNameCached(oled_display) ==
  IF "driver_name" \in DOMAIN oled_display THEN oled_display.driver_name
  ELSE JoinElem(oled_display, "driver") \o JoinElem(oled_display, "transport")
         \o JoinElem(oled_display, "dimensions") \o "Driver"

\* [driver, transport, dimensions, "Driver"].join("")
DriverName(oled_display) ==
  JoinElem(oled_display, "driver") \o JoinElem(oled_display, "transport")
    \o JoinElem(oled_display, "dimensions") \o "Driver"

\* oled_display.driver_name = ... on every entry of the list
SetDriverNames(list) ==
  [i \in 1..Len(list) |->
     [f \in DOMAIN list[i] \cup {"driver_name"} |->
        IF f = "driver_name" THEN DriverName(list[i]) ELSE list[i][f]]]

\* display${(idx === 0) ? "" : idx} of the DECLARATION branch
DisplayDeclNameSuffixed(idx) == "display" \o ToString(idx)

DisplayDeclName(idx) ==
  "display" \o (IF idx = 0 THEN "" ELSE ToString(idx))

\* display${(idx == 0) ? "" : idx} of the INITIALIZATION branch
DisplayInitName(idx) ==
  "display" \o (IF idx = 0 THEN "" ELSE ToString(idx))

\* the lines pushed for one entry in the INITIALIZATION branch
DisplayInitEntry(oled_display, idx) ==
  LET cfg == "display_config" \o ToString(idx)
      tc == cfg \o ".driver_config.transport_config."
  IN  <<"// Display " \o ToString(idx),
        "OledDisplay<" \o oled_display.driver_name \o ">::Config " \o cfg
          \o ";">>
      \o (IF Text(oled_display, "transport") = "4WireSpi" THEN
            <<tc \o "pin_config.dc = seed.GetPin("
                \o Num(oled_display["4_wire_spi_config"], "pin_dc") \o ");",
              tc \o "pin_config.reset = seed.GetPin("
                \o Num(oled_display["4_wire_spi_config"], "pin_reset")
                \o ");">>
          ELSE IF Text(oled_display, "transport") = "I2c" THEN
            <<tc \o "i2c_address = "
                \o Text(oled_display.i2c_config, "address") \o ";",
              tc \o "i2c_config.periph = I2CHandle::Config::Peripheral::"
                \o Text(oled_display.i2c_config, "peripheral") \o ";",
              tc \o "i2c_config.speed = I2CHandle::Config::Speed::"
                \o Text(oled_display.i2c_config, "speed") \o ";",
              tc \o "i2c_config.pin_config.sda = seed.GetPin("
                \o Num(oled_display.i2c_config, "pin_sda") \o ");",
              tc \o "i2c_config.pin_config.scl = seed.GetPin("
                \o Num(oled_display.i2c_config, "pin_scl") \o ");">>
          ELSE <<>>)
      \o <<DisplayInitName(idx) \o ".Init(" \o cfg \o ");">>

RECURSIVE DisplayInitFromLast(_, _)
DisplayInitFromLast(list, k) ==
  IF k > Len(list) THEN <<>>
  ELSE DisplayInitFromLast(list, k + 1) \o DisplayInitEntry(list[k], k - 1)

RECURSIVE DisplayInitFrom(_, _)
DisplayInitFrom(list, k) ==
  IF k > Len(list) THEN <<>>
  ELSE DisplayInitEntry(list[k], k - 1) \o DisplayInitFrom(list, k + 1)

\* reading a property of oled_display["4_wire_spi_config"] or of
\* oled_display.i2c_config when the entry has no such field raises a TypeError
DisplayEntryThrows(oled_display) ==
  \/ /\ Text(oled_display, "transport") = "4WireSpi"
     /\ "4_wire_spi_config" \notin DOMAIN oled_display
  \/ /\ Text(oled_display, "transport") = "I2c"
     /\ "i2c_config" \notin DOMAIN oled_display

\* the call raises instead of returning: the INITIALIZATION forEach reaches
\* an entry whose transport configuration is missing
OledDisplaysThrows(oled_displays, context) ==
  /\ ~Absent(oled_displays)
  /\ context = "INITIALIZATION"
  /\ \E i \in 1..Len(oled_displays.val) :
       DisplayEntryThrows(oled_displays.val[i])

OledDisplaysBranchesIncludePerEntry(list, context) ==
  IF context = "INCLUDE" THEN
    SelectSeq([i \in 1..Len(list) |->
                 IF "driver" \in DOMAIN list[i] /\ list[i].driver = "SSD130x"
                 THEN "#include \"dev/oled_ssd130x.h\"\n" ELSE ""],
              LAMBDA line : line # "")
  ELSE IF context = "DECLARATION" THEN
    <<"// OLED display declaration">>
      \o [i \in 1..Len(list) |->
            "OledDisplay<" \o list[i].driver_name \o "> "
              \o DisplayDeclName(i - 1) \o ";"]
  ELSE IF context = "INITIALIZATION" THEN
    <<"// BEGIN - OLED display initialization">>
      \o DisplayInitFrom(list, 1)
      \o <<"// END - OLED display initialization">>
  ELSE <<>>

\* the branches, run on the entries once their driver names are set
OledDisplaysBranches(list, context) ==
  IF context = "INCLUDE" THEN
    IF \E i \in 1..Len(list) : "driver" \in DOMAIN list[i]
                                 /\ list[i].driver = "SSD130x"
    THEN <<"#include \"dev/oled_ssd130x.h\"\n">>
    ELSE <<>>
  ELSE IF context = "DECLARATION" THEN
    <<"// OLED display declaration">>
      \o [i \in 1..Len(list) |->
            "OledDisplay<" \o list[i].driver_name \o "> "
              \o DisplayDeclName(i - 1) \o ";"]
  ELSE IF context = "INITIALIZATION" THEN
    <<"// BEGIN - OLED display initialization">>
      \o DisplayInitFrom(list, 1)
      \o <<"// END - OLED display initialization">>
  ELSE <<>>

\* the entries as the call leaves them
OledDisplaysAfter(oled_displays) ==
  IF Absent(oled_displays) THEN oled_displays
  ELSE Some(SetDriverNames(oled_displays.val))

OledDisplaysCode(oled_displays, context) ==
  IF Absent(oled_displays) THEN <<>>
  ELSE OledDisplaysBranches(SetDriverNames(oled_displays.val), context)

generateOledDisplays(oled_displays, context) ==
  Join(OledDisplaysCode(oled_displays, context),
       IF context = "DECLARATION" THEN DeclSep ELSE InitSep)

(***************************************************************************)
(* generateCustomHardwareImpl: the output template.  TemplateLits are the  *)
(* literal pieces of the template, each as its lines (joined by "\n"), and *)
(* TemplateCalls are the interpolated generator calls between them, in     *)
(* source order.                                                           *)
(***************************************************************************)
TemplateLits ==
  <<<<"", "", "#include \"daisy_seed.h\"", "">>,
    <<"", "", "using namespace daisy;", "", "typedef struct {", "    DaisySeed seed;", "  ", "    ">>,
    <<"", "", "    ">>,
    <<"", "    ", "    ">>,
    <<"", "", "    ">>,
    <<"", "", "    ">>,
    <<"", "", "    ">>,
    <<"", "", "    ">>,
    <<"", "", "    ">>,
    <<"", "    ", "    ">>,
    <<"", "", "    ">>,
    <<"", "", "    void Init(bool boost) ", "    {", "        seed.Configure();", "        seed.Init(boost);", "", "        ">>,
    <<"", "        ", "        ">>,
    <<"", "", "        ">>,
    <<"", "", "        ">>,
    <<"", "", "        ">>,
    <<"", "", "        ">>,
    <<"", "", "        ">>,
    <<"", "", "        ">>,
    <<"", "", "        ">>,
    <<"", "", "        ">>,
    <<"", "    }", "", "    void ProcessAnalogControls()", "    {", "        ">>,
    <<"", "    }", "", "    void ProcessDigitalControls()", "    {", "        ">>,
    <<"", "", "        ">>,
    <<"", "    }", "", "    inline void ProcessAllControls()", "    {", "        ProcessAnalogControls();", "        ProcessDigitalControls();", "    }", "", "    void UpdateLeds()", "    {", "      ">>,
    <<"", "      ">>,
    <<"", "    }", "", "  } Daisy;", "  ">>>>

\* the fields of the description each generator is handed by the template
ArgsPassed(gen) ==
  CASE gen = "generateAnalogControls" -> <<"analog_controls", "cv_inputs">>
    [] gen = "generateCvOutputs" -> <<"cv_outputs">>
    [] gen = "generateEncoders" -> <<"encoders">>
    [] gen = "generateGateInputs" -> <<"gate_inputs">>
    [] gen = "generateGateOutputs" -> <<"gate_inputs">>
    [] gen = "generateLeds" -> <<"leds">>
    [] gen = "generateMidiHandlers" -> <<"midi_handlers">>
    [] gen = "generateOledDisplays" -> <<"oled_displays">>
    [] gen = "generateRgbLeds" -> <<"rgb_leds">>
    [] gen = "generateSwitches" -> <<"switches">>

\* the generators interpolated into the typedef, in source order
DeclarationOrderGateFirst ==
  <<"generateAnalogControls", "generateCvOutputs", "generateGateInputs",
    "generateGateOutputs", "generateEncoders", "generateLeds",
    "generateMidiHandlers", "generateOledDisplays", "generateRgbLeds",
    "generateSwitches">>

DeclarationOrder ==
  <<"generateAnalogControls", "generateCvOutputs", "generateEncoders",
    "generateGateInputs", "generateGateOutputs", "generateLeds",
    "generateMidiHandlers", "generateOledDisplays", "generateRgbLeds",
    "generateSwitches">>

\* the generators interpolated into Init(), in source order
InitializationOrder ==
  <<"generateAnalogControls", "generateCvOutputs", "generateGateInputs",
    "generateGateOutputs", "generateEncoders", "generateLeds",
    "generateMidiHandlers", "generateOledDisplays", "generateRgbLeds",
    "generateSwitches">>

\* the generators interpolated into ProcessAnalogControls (1),
\* ProcessDigitalControls (2, 3) and UpdateLeds (4, 5), in source order
ProcessingOrderLedsInDigital ==
  <<"generateAnalogControls", "generateEncoders", "generateLeds",
    "generateSwitches", "generateRgbLeds">>

ProcessingOrder ==
  <<"generateAnalogControls", "generateEncoders", "generateSwitches",
    "generateLeds", "generateRgbLeds">>

CallsIn(order, context) ==
  [k \in 1..Len(order) |->
     [gen |-> order[k], args |-> ArgsPassed(order[k]), context |-> context]]

TemplateCallsInitFirst ==
  CallsIn(<<"generateOledDisplays">>, "INCLUDE")
    \o CallsIn(InitializationOrder, "INITIALIZATION")
    \o CallsIn(DeclarationOrder, "DECLARATION")
    \o CallsIn(ProcessingOrder, "PROCESSING")

TemplateCalls ==
  CallsIn(<<"generateOledDisplays">>, "INCLUDE")
    \o CallsIn(DeclarationOrder, "DECLARATION")
    \o CallsIn(InitializationOrder, "INITIALIZATION")
    \o CallsIn(ProcessingOrder, "PROCESSING")

\* the text one interpolated call returns
Returns(call, description) ==
  CASE call.gen = "generateAnalogControls" ->
         generateAnalogControls(Field(description, call.args[1]),
                                Field(description, call.args[2]), call.context)
    [] call.gen = "generateCvOutputs" ->
         generateCvOutputs(Field(description, call.args[1]), call.context)
    [] call.gen = "generateEncoders" ->
         generateEncoders(Field(description, call.args[1]), call.context)
    [] call.gen = "generateGateInputs" ->
         generateGateInputs(Field(description, call.args[1]), call.context)
    [] call.gen = "generateGateOutputs" ->
         generateGateOutputs(Field(description, call.args[1]), call.context)
    [] call.gen = "generateLeds" ->
         generateLeds(Field(description, call.args[1]), call.context)
    [] call.gen = "generateMidiHandlers" ->
         generateMidiHandlers(Field(description, call.args[1]), call.context)
    [] call.gen = "generateOledDisplays" ->
         generateOledDisplays(Field(description, call.args[1]), call.context)
    [] call.gen = "generateRgbLeds" ->
         generateRgbLeds(Field(description, call.args[1]), call.context)
    [] call.gen = "generateSwitches" ->
         generateSwitches(Field(description, call.args[1]), call.context)

\* the description as generateOledDisplays leaves it: the entries of the
\* list it was handed carry their driver names
WithDriverNames(description, field) ==
  IF Absent(Field(description, field)) THEN description
  ELSE [description EXCEPT
          ![field] = OledDisplaysAfter(Field(description, field)).val]

LeavesSliced(call, description) ==
  IF call.gen = "generateOledDisplays"
  THEN WithDriverNames(description, call.args[1])
  ELSE IF call.gen = "generateCvOutputs"
          /\ ~Absent(Field(description, call.args[1]))
  THEN [description EXCEPT
          ![call.args[1]] = Truncated(description[call.args[1]])]
  ELSE description

\* the description as one interpolated call leaves it
Leaves(call, description) ==
  IF call.gen = "generateOledDisplays"
  THEN WithDriverNames(description, call.args[1])
  ELSE description

\* the interpolations are evaluated left to right: the description after the
\* first k of them
RECURSIVE DescriptionAfter(_, _)
DescriptionAfter(description, k) ==
  IF k = 0 THEN description
  ELSE Leaves(TemplateCalls[k], DescriptionAfter(description, k - 1))

\* the fragment interpolation k yields
Fragment(description, k) ==
  Returns(TemplateCalls[k], DescriptionAfter(description, k - 1))

Fragments(description) ==
  [k \in 1..Len(TemplateCalls) |-> Fragment(description, k)]

\* literal k of the template followed by interpolation k
Piece(description, k) ==
  Join(TemplateLits[k], "\n")
    \o (IF k <= Len(TemplateCalls) THEN Fragment(description, k) ELSE "")

\* pieces i..j of the template
RECURSIVE Pieces(_, _, _)
Pieces(description, i, j) ==
  IF i = j THEN Piece(description, i)
  ELSE Pieces(description, i, (i + j) \div 2)
         \o Pieces(description, ((i + j) \div 2) + 1, j)

\* the text generateCustomHardwareImpl returns
generateCustomHardwareImpl(description) ==
  Pieces(description, 1, Len(TemplateLits))

(***************************************************************************)
(* The hardware descriptions tried.                                        *)
(***************************************************************************)
\* an interpolated call raises, and with it the template literal
ImplThrows(description) ==
  \E k \in 1..Len(TemplateCalls) :
    /\ TemplateCalls[k].gen = "generateOledDisplays"
    /\ OledDisplaysThrows(Field(DescriptionAfter(description, k - 1),
                                TemplateCalls[k].args[1]),
                          TemplateCalls[k].context)

SeqsUpTo(S, n) == UNION {[1..k -> S] : k \in 0..n}

AnalogEntries ==
  {[pin |-> 15, labels |-> <<"knob1", "cutoff">>, flip |-> TRUE],
   [pin |-> 16, invert |-> TRUE]}

CvInputEntries ==
  {[pin |-> 17, labels |-> <<"cv1">>, flip |-> FALSE, invert |-> TRUE],
   [pin |-> 18]}

CvOutputEntries ==
  {[pin |-> 22, labels |-> <<"cvout1">>],
   [pin |-> 23]}

EncoderEntries ==
  {[pin_a |-> 1, pin_b |-> 2, pin_switch |-> 3, labels |-> <<"menu">>],
   [pin_a |-> 4, pin_b |-> 5, pin_switch |-> 6]}

SwitchEntries ==
  {[pin |-> 1, labels |-> <<"foo">>, type |-> "TYPE_MOMENTARY",
    polarity |-> "POLARITY_INVERTED", pull |-> "PULL_UP"],
   [pin |-> 7, labels |-> <<"bar", "foo", "bar">>, type |-> "TYPE_TOGGLE",
    polarity |-> "POLARITY_NORMAL", pull |-> "PULL_NONE"]}

LedEntries ==
  {[pin |-> 24, labels |-> <<"led1">>, invert |-> TRUE],
   [pin |-> 25]}

RgbLedEntries ==
  {[pin_r |-> 26, pin_g |-> 27, pin_b |-> 28, labels |-> <<"rgb">>],
   [pin_r |-> 29, pin_g |-> 30, pin_b |-> 31, invert |-> TRUE]}

GateInputEntries ==
  {[pin |-> 20, labels |-> <<"gate1", "clock">>],
   [pin |-> 21]}

GateOutputEntries == {[pin |-> 19, labels |-> <<"gateout">>]}

MidiHandlerEntries == {[labels |-> <<"midi">>]}

I2cDisplay ==
  [driver |-> "SSD130x", transport |-> "I2c", dimensions |-> "128x64",
   i2c_config |-> [address |-> "0x3C", peripheral |-> "I2C_1",
                   speed |-> "I2C_1MHZ", pin_sda |-> 12, pin_scl |-> 11]]

SpiDisplay ==
  [driver |-> "SSD130x", transport |-> "4WireSpi", dimensions |-> "128x32"]
    @@ ("4_wire_spi_config" :> [pin_dc |-> 9, pin_reset |-> 30])

\* a driver family with no header of its own, on a transport with no binding
OtherDisplay ==
  [driver |-> "SH1106", transport |-> "Parallel", dimensions |-> "64x48"]

\* an entry that already carries a driver_name when it is handed in
NamedDisplay ==
  [driver |-> "SSD130x", transport |-> "I2c", dimensions |-> "98x16",
   driver_name |-> "StaleDriver",
   i2c_config |-> [address |-> "0x3D", peripheral |-> "I2C_4",
                   speed |-> "I2C_400KHZ", pin_sda |-> 13, pin_scl |-> 14]]

DisplayEntries == {I2cDisplay, SpiDisplay, OtherDisplay, NamedDisplay}

ListFields ==
  {"analog_controls", "cv_inputs", "cv_outputs", "encoders", "switches",
   "leds", "rgb_leds", "oled_displays", "gate_inputs", "gate_outputs",
   "midi_handlers"}

EntriesOf(field) ==
  CASE field = "analog_controls" -> AnalogEntries
    [] field = "cv_inputs" -> CvInputEntries
    [] field = "cv_outputs" -> CvOutputEntries
    [] field = "encoders" -> EncoderEntries
    [] field = "switches" -> SwitchEntries
    [] field = "leds" -> LedEntries
    [] field = "rgb_leds" -> RgbLedEntries
    [] field = "oled_displays" -> DisplayEntries
    [] field = "gate_inputs" -> GateInputEntries
    [] field = "gate_outputs" -> GateOutputEntries
    [] field = "midi_handlers" -> MidiHandlerEntries

ListsOf(field) ==
  SeqsUpTo(EntriesOf(field),
           IF field = "cv_outputs" THEN MaxLen + ExtraCvOut ELSE MaxLen)

\* the description with no list at all
NoLists == [f \in {} |-> <<>>]

\* one list present, every other list missing
OneListDescriptions ==
  UNION {{f :> l : l \in ListsOf(f)} : f \in ListFields}

\* analog inputs and CV inputs together, up to MaxLen + 1 slots
MergedDescriptions ==
  {("analog_controls" :> pair[1]) @@ ("cv_inputs" :> pair[2]) :
     pair \in {p \in ListsOf("analog_controls") \X ListsOf("cv_inputs") :
                 Len(p[1]) + Len(p[2]) <= MaxLen + 1}}

\* a list of every kind: five kinds each missing or with two entries (or
\* empty, for two of them), the other kinds with one entry
SampleList(field) ==
  CASE field = "analog_controls" -> <<[pin |-> 15, labels |-> <<"knob1">>]>>
    [] field = "cv_inputs" -> <<[pin |-> 17, labels |-> <<"cv1">>]>>
    [] field = "cv_outputs" -> <<[pin |-> 22]>>
    [] field = "encoders" ->
         <<[pin_a |-> 1, pin_b |-> 2, pin_switch |-> 3, labels |-> <<"menu">>],
           [pin_a |-> 4, pin_b |-> 5, pin_switch |-> 6]>>
    [] field = "switches" ->
         <<[pin |-> 7, labels |-> <<"foo">>, type |-> "TYPE_MOMENTARY",
            polarity |-> "POLARITY_INVERTED", pull |-> "PULL_UP"],
           [pin |-> 8, type |-> "TYPE_TOGGLE", polarity |-> "POLARITY_NORMAL",
            pull |-> "PULL_NONE"]>>
    [] field = "leds" -> <<[pin |-> 24, labels |-> <<"led1">>], [pin |-> 25]>>
    [] field = "rgb_leds" -> <<[pin_r |-> 26, pin_g |-> 27, pin_b |-> 28]>>
    [] field = "oled_displays" -> <<I2cDisplay, SpiDisplay>>
    [] field = "gate_inputs" ->
         <<[pin |-> 20, labels |-> <<"gate1">>], [pin |-> 21]>>
    [] field = "gate_outputs" -> <<[pin |-> 19]>>
    [] field = "midi_handlers" -> <<[labels |-> <<"midi">>]>>

VariedFields == {"encoders", "gate_inputs", "leds", "oled_displays", "switches"}

WholeDescriptions ==
  {[f \in present \cup (ListFields \ VariedFields) |->
      IF f \in empty THEN <<>> ELSE SampleList(f)] :
     present \in SUBSET VariedFields, empty \in {{}, {"encoders", "leds"}}}

\* display entries whose transport configuration is missing
I2cNoConfig ==
  [driver |-> "SSD130x", transport |-> "I2c", dimensions |-> "128x64"]

SpiNoConfig ==
  [driver |-> "SSD130x", transport |-> "4WireSpi", dimensions |-> "128x32"]

\* display lists with at least one such entry, alone or among the other kinds
MalformedDescriptions ==
  {("oled_displays" :> l) @@ rest :
     l \in {m \in SeqsUpTo({I2cNoConfig, SpiNoConfig, I2cDisplay,
                             OtherDisplay}, MaxLen) :
              \E i \in 1..Len(m) : m[i] \in {I2cNoConfig, SpiNoConfig}},
     rest \in {NoLists,
               [f \in ListFields \ {"oled_displays"} |-> SampleList(f)]}}

Descriptions ==
  {NoLists} \cup OneListDescriptions \cup MergedDescriptions
    \cup WholeDescriptions

(***************************************************************************)
(* State: hd is the hardware description object (generateOledDisplays      *)
(* writes driver_name on its display entries); last records the last call  *)
(* made and what it returned; prev is the call before it when that was a   *)
(* generateCustomHardwareImpl run directly followed by another one.        *)
(***************************************************************************)
NoCall == [op |-> "none"]

Init ==
  /\ hd \in Descriptions
  /\ last = NoCall
  /\ prev = NoCall

Returned(op, context, code, result) ==
  [op |-> op, context |-> context, code |-> code, result |-> result]

\* a call that raised an error instead of returning
Thrown(op, error) == [op |-> op, error |-> error]

GenerateCustomHardwareImpl ==
  /\ hd' = DescriptionAfter(hd, Len(TemplateCalls))
  /\ last' = IF ImplThrows(hd)
             THEN Thrown("generateCustomHardwareImpl", "TypeError")
             ELSE [op |-> "generateCustomHardwareImpl",
                   frags |-> Fragments(hd),
                   result |-> generateCustomHardwareImpl(hd)]
  /\ prev' = IF last.op = "generateCustomHardwareImpl" THEN last ELSE NoCall

GenerateAnalogControls ==
  \E context \in Context :
    /\ last' = Returned("generateAnalogControls", context,
                 AnalogControlsCode(Field(hd, "analog_controls"),
                                    Field(hd, "cv_inputs"), context),
                 generateAnalogControls(Field(hd, "analog_controls"),
                                        Field(hd, "cv_inputs"), context))
    /\ prev' = NoCall
    /\ UNCHANGED hd

GenerateCvOutputs ==
  \E context \in Context :
    /\ last' = Returned("generateCvOutputs", context,
                 CvOutputsCode(Field(hd, "cv_outputs"), context),
                 generateCvOutputs(Field(hd, "cv_outputs"), context))
    /\ prev' = NoCall
    /\ UNCHANGED hd

GenerateEncoders ==
  \E context \in Context :
    /\ last' = Returned("generateEncoders", context,
                 EncodersCode(Field(hd, "encoders"), context),
                 generateEncoders(Field(hd, "encoders"), context))
    /\ prev' = NoCall
    /\ UNCHANGED hd

GenerateSwitches ==
  \E context \in Context :
    /\ last' = Returned("generateSwitches", context,
                 SwitchesCode(Field(hd, "switches"), context),
                 generateSwitches(Field(hd, "switches"), context))
    /\ prev' = NoCall
    /\ UNCHANGED hd

GenerateLeds ==
  \E context \in Context :
    /\ last' = Returned("generateLeds", context,
                 LedsCode(Field(hd, "leds"), context),
                 generateLeds(Field(hd, "leds"), context))
    /\ prev' = NoCall
    /\ UNCHANGED hd

GenerateRgbLeds ==
  \E context \in Context :
    /\ last' = Returned("generateRgbLeds", context,
                 RgbLedsCode(Field(hd, "rgb_leds"), context),
                 generateRgbLeds(Field(hd, "rgb_leds"), context))
    /\ prev' = NoCall
    /\ UNCHANGED hd

GenerateOledDisplays ==
  \E context \in Context :
    /\ last' = IF OledDisplaysThrows(Field(hd, "oled_displays"), context)
               THEN Thrown("generateOledDisplays", "TypeError")
               ELSE Returned("generateOledDisplays", context,
                      OledDisplaysCode(Field(hd, "oled_displays"), context),
                      generateOledDisplays(Field(hd, "oled_displays"),
                                           context))
    /\ hd' = WithDriverNames(hd, "oled_displays")
    /\ prev' = NoCall

GenerateGateInputs ==
  \E context \in Context :
    /\ last' = Returned("generateGateInputs", context,
                 GateInputsCode(Field(hd, "gate_inputs"), context),
                 generateGateInputs(Field(hd, "gate_inputs"), context))
    /\ prev' = NoCall
    /\ UNCHANGED hd

GenerateGateOutputs ==
  \E context \in Context :
    /\ last' = Returned("generateGateOutputs", context, <<>>,
                 generateGateOutputs(Field(hd, "gate_outputs"), context))
    /\ prev' = NoCall
    /\ UNCHANGED hd

GenerateMidiHandlers ==
  \E context \in Context :
    /\ last' = Returned("generateMidiHandlers", context, <<>>,
                 generateMidiHandlers(Field(hd, "midi_handlers"), context))
    /\ prev' = NoCall
    /\ UNCHANGED hd

Next ==
  \/ GenerateCustomHardwareImpl
  \/ GenerateAnalogControls
  \/ GenerateCvOutputs
  \/ GenerateEncoders
  \/ GenerateSwitches
  \/ GenerateLeds
  \/ GenerateRgbLeds
  \/ GenerateOledDisplays
  \/ GenerateGateInputs
  \/ GenerateGateOutputs
  \/ GenerateMidiHandlers

Spec == Init /\ [][Next]_vars

\* the same calls on descriptions with malformed display entries
InitMalformed ==
  /\ hd \in MalformedDescriptions
  /\ last = NoCall
  /\ prev = NoCall

SpecMalformed == InitMalformed /\ [][Next]_vars

(***************************************************************************)
(* Properties.                                                             *)
(***************************************************************************)
Impl == "generateCustomHardwareImpl"

\* the list of the description a direct generator call was handed
Handed(field) == Field(hd, field)

\* the fragment a kind contributes for a phase, from the description
KindFragment(kind, context) ==
  CASE kind = "analog" ->
         generateAnalogControls(Handed("analog_controls"), Handed("cv_inputs"),
                                context)
    [] kind = "cv_output" -> generateCvOutputs(Handed("cv_outputs"), context)
    [] kind = "encoder" -> generateEncoders(Handed("encoders"), context)
    [] kind = "gate_input" -> generateGateInputs(Handed("gate_inputs"), context)
    [] kind = "gate_output" ->
         generateGateOutputs(Handed("gate_outputs"), context)
    [] kind = "led" -> generateLeds(Handed("leds"), context)
    [] kind = "midi_handler" ->
         generateMidiHandlers(Handed("midi_handlers"), context)
    [] kind = "display" -> generateOledDisplays(Handed("oled_displays"), context)
    [] kind = "rgb_led" -> generateRgbLeds(Handed("rgb_leds"), context)
    [] kind = "switch" -> generateSwitches(Handed("switches"), context)

\* the kind order the specification fixes
KindOrder ==
  <<"analog", "cv_output", "encoder", "gate_input", "gate_output", "led",
    "midi_handler", "display", "rgb_led", "switch">>

\* every kind that emits text has a non-empty list
AllKindsPresent ==
  \A f \in ListFields : f \in DOMAIN hd /\ Len(hd[f]) > 0

\* C1: two generateCustomHardwareImpl calls in a row on the same description
\* return the same text, also when the description has display entries, whose
\* driver_name the first call has written.
C1_Idempotent ==
  (last.op = Impl /\ prev.op = Impl) => last.result = prev.result

C1_Witness ==
  /\ last.op = Impl /\ prev.op = Impl
  /\ "oled_displays" \in DOMAIN hd /\ Len(hd.oled_displays) = MaxLen
  /\ \A i \in 1..Len(hd.oled_displays) :
       "driver_name" \in DOMAIN hd.oled_displays[i]
  /\ last.result = prev.result

\* C2: in the emitted Init routine the fragment at position k is the
\* initialization fragment of the k-th kind of the declaration order
\* (analog, CV output, encoder, gate input, gate output, LED, MIDI handler,
\* display, RGB LED, switch).
C2_InitInDeclarationOrder ==
  last.op = Impl =>
    \A k \in 1..Len(KindOrder) :
      last.frags[1 + Len(KindOrder) + k]
        = KindFragment(KindOrder[k], "INITIALIZATION")

\* C3: in the emitted typedef the core handle DaisySeed seed is declared
\* before the first fragment, nothing but blank lines stands between the
\* fragments, and the fragment at position k is the declaration fragment of the
\* k-th kind of the order analog, CV output, encoder, gate input, gate output,
\* LED, MIDI handler, display, RGB LED, switch.
C3_DeclarationOrder ==
  last.op = Impl =>
    /\ \E n \in 1..Len(TemplateLits[2]) :
         /\ TemplateLits[2][n] = "    DaisySeed seed;"
         /\ \A m \in (n + 1)..Len(TemplateLits[2]) :
              TemplateLits[2][m] \in {"", "  ", "    "}
    /\ \A k \in 1..Len(KindOrder) :
         /\ last.frags[1 + k] = KindFragment(KindOrder[k], "DECLARATION")
         /\ k > 1 => \A m \in 1..Len(TemplateLits[1 + k]) :
                       TemplateLits[1 + k][m] \in {"", "  ", "    "}

C3_Witness ==
  /\ last.op = Impl
  /\ AllKindsPresent
  /\ last.frags[4] = generateEncoders(Handed("encoders"), "DECLARATION")
  /\ last.frags[5] = generateGateInputs(Handed("gate_inputs"), "DECLARATION")
  /\ last.frags[4] # last.frags[5]

\* the text of the per-tick routines, from the closing brace of Init on, as
\* the specification composes them
TickRoutinesText ==
  "\n    }\n\n    void ProcessAnalogControls()\n    {\n        "
    \o KindFragment("analog", "PROCESSING")
    \o "\n    }\n\n    void ProcessDigitalControls()\n    {\n        "
    \o KindFragment("encoder", "PROCESSING")
    \o "\n\n        "
    \o KindFragment("switch", "PROCESSING")
    \o "\n    }\n\n    inline void ProcessAllControls()\n    {\n"
    \o "        ProcessAnalogControls();\n"
    \o "        ProcessDigitalControls();\n    }\n\n"
    \o "    void UpdateLeds()\n    {\n      "
    \o KindFragment("led", "PROCESSING")
    \o "\n      "
    \o KindFragment("rgb_led", "PROCESSING")
    \o "\n    }\n\n  } Daisy;\n  "

\* C4: ProcessAnalogControls holds only the analog processing fragment,
\* ProcessDigitalControls the encoder then the switch processing fragment,
\* UpdateLeds the LED then the RGB LED processing fragment, and
\* ProcessAllControls calls ProcessAnalogControls then ProcessDigitalControls
\* and nothing else: the returned text ends, after the last initialization
\* fragment, with exactly these routines.
C4_TickRoutines ==
  last.op = Impl =>
    last.result
      = Pieces(hd, 1, 1 + Len(KindOrder) + Len(KindOrder)) \o TickRoutinesText

C4_Witness ==
  /\ last.op = Impl
  /\ AllKindsPresent
  /\ KindFragment("switch", "PROCESSING") # KindFragment("led", "PROCESSING")
  /\ last.frags[Len(last.frags)] = KindFragment("rgb_led", "PROCESSING")

\* the lists a generator reads, by the name of the generator
ListsRead(op) ==
  CASE op = "generateAnalogControls" -> {"analog_controls", "cv_inputs"}
    [] op = "generateCvOutputs" -> {"cv_outputs"}
    [] op = "generateEncoders" -> {"encoders"}
    [] op = "generateSwitches" -> {"switches"}
    [] op = "generateLeds" -> {"leds"}
    [] op = "generateRgbLeds" -> {"rgb_leds"}
    [] op = "generateOledDisplays" -> {"oled_displays"}
    [] op = "generateGateInputs" -> {"gate_inputs"}
    [] op = "generateGateOutputs" -> {"gate_outputs"}
    [] op = "generateMidiHandlers" -> {"midi_handlers"}

Generators ==
  {"generateAnalogControls", "generateCvOutputs", "generateEncoders",
   "generateSwitches", "generateLeds", "generateRgbLeds",
   "generateOledDisplays", "generateGateInputs", "generateGateOutputs",
   "generateMidiHandlers"}

MissingOrEmpty(field) == field \notin DOMAIN hd \/ hd[field] = <<>>

\* C5: a generator whose list is missing or empty returns the empty fragment
\* at every phase (no line at all, so no array or instance is declared),
\* whether the list is missing or empty.
C5_AbsentListEmptyFragment ==
  (last.op \in Generators /\ \A f \in ListsRead(last.op) : MissingOrEmpty(f))
    => last.result = "" /\ last.code = <<>>

C5_Witness ==
  /\ last.op = "generateEncoders" /\ last.context = "DECLARATION"
  /\ "encoders" \in DOMAIN hd /\ hd.encoders = <<>>
  /\ last.result = ""

\* the merged analog list as the specification orders it: slot i (from 0)
\* is analog input i below the number of analog inputs, and CV input
\* i - (number of analog inputs) from there on
MergedSlots ==
  LET analog == IF "analog_controls" \in DOMAIN hd THEN hd.analog_controls
                ELSE <<>>
      cv == IF "cv_inputs" \in DOMAIN hd THEN hd.cv_inputs ELSE <<>>
  IN  [i \in 1..(Len(analog) + Len(cv)) |->
         IF i <= Len(analog) THEN analog[i] ELSE cv[i - Len(analog)]]

LabelCount(entry) ==
  IF "labels" \in DOMAIN entry THEN Len(entry.labels) ELSE 0

\* the number of labels of the entries before entry i
RECURSIVE LabelsBefore(_, _)
LabelsBefore(list, i) ==
  IF i <= 1 THEN 0
  ELSE LabelsBefore(list, i - 1) + LabelCount(list[i - 1])

\* after `header` lines, code holds one alias line per (entry, label) pair
\* and nothing else: entries in list order, labels in label order, each bound
\* to the slot of its entry
AliasesExactly(code, header, list, type, array) ==
  /\ Len(code) = header + LabelsBefore(list, Len(list) + 1)
  /\ \A i \in 1..Len(list) :
       \A j \in 1..LabelCount(list[i]) :
         code[header + LabelsBefore(list, i) + j]
           = type \o "& " \o list[i].labels[j] \o " = " \o array
               \o "[" \o ToString(i - 1) \o "];"

\* C6: with a analog inputs and c CV inputs, a + c > 0, the controls array
\* is declared with size a + c and, in every phase, slot i carries the pin,
\* flip, invert and labels of analog input i for i < a and of CV input i - a
\* for a <= i < a + c.
C6_MergedAnalog ==
  (last.op = "generateAnalogControls" /\ Len(MergedSlots) > 0) =>
    LET n == Len(MergedSlots)
        code == last.code
    IN  /\ last.context = "DECLARATION" =>
             /\ code[2] = "AnalogControl controls[" \o ToString(n) \o "];"
             /\ AliasesExactly(code, 2, MergedSlots, "AnalogControl",
                               "controls")
        /\ last.context = "INITIALIZATION" =>
             /\ Len(code) = n + n + 5
             /\ code[2] = "AdcChannelConfig cfg[" \o ToString(n) \o "];"
             /\ code[n + 3] = "seed.adc.Init(cfg, " \o ToString(n) \o ");"
             /\ \A i \in 1..n :
                  /\ code[2 + i]
                       = "cfg[" \o ToString(i - 1)
                           \o "].InitSingle(seed.GetPin("
                           \o ToString(MergedSlots[i].pin) \o "));"
                  /\ code[n + 3 + i]
                       = "controls[" \o ToString(i - 1)
                           \o "].Init(seed.adc.GetPtr(" \o ToString(i - 1)
                           \o "), seed.AudioCallbackRate(), "
                           \o Flag(MergedSlots[i], "flip") \o ", "
                           \o Flag(MergedSlots[i], "invert") \o ");"
        /\ last.context = "PROCESSING" =>
             /\ Len(code) = n + 1
             /\ \A i \in 1..n :
                  code[1 + i] = "controls[" \o ToString(i - 1) \o "].Process();"

C6_Witness ==
  /\ last.op = "generateAnalogControls" /\ last.context = "INITIALIZATION"
  /\ "analog_controls" \in DOMAIN hd /\ Len(hd.analog_controls) = MaxLen
  /\ "cv_inputs" \in DOMAIN hd /\ Len(hd.cv_inputs) = 1
  /\ hd.cv_inputs[1].pin = 17
  /\ last.code[2] = "AdcChannelConfig cfg[" \o ToString(MaxLen + 1) \o "];"
  /\ last.code[3 + MaxLen] = "cfg[" \o ToString(MaxLen)
                               \o "].InitSingle(seed.GetPin(17));"

\* the one two-channel DAC initialization fragment
DacInitText ==
  "// BEGIN - cv_outputs initialization\n"
    \o "        DacHandle::Config dac_cfg;\n"
    \o "        dac_cfg.bitdepth   = DacHandle::BitDepth::BITS_12;\n"
    \o "        dac_cfg.buff_state = DacHandle::BufferState::ENABLED;\n"
    \o "        dac_cfg.mode       = DacHandle::Mode::POLLING;\n"
    \o "        dac_cfg.chn        = DacHandle::Channel::BOTH;\n"
    \o "        seed.dac.Init(dac_cfg);\n"
    \o "        seed.dac.WriteValue(DacHandle::Channel::BOTH, 0);\n"
    \o "        // END - cv_outputs initialization"

\* C7: for every non-empty CV-output list, whatever its length and its
\* entries, generateCvOutputs returns the one fixed two-channel DAC
\* initialization fragment at INITIALIZATION and the empty fragment at the
\* other three phases.
C7_CvOutputsFixed ==
  (last.op = "generateCvOutputs" /\ ~MissingOrEmpty("cv_outputs")) =>
    last.result = IF last.context = "INITIALIZATION" THEN DacInitText ELSE ""

C7_Witness ==
  /\ last.op = "generateCvOutputs" /\ last.context = "INITIALIZATION"
  /\ "cv_outputs" \in DOMAIN hd /\ Len(hd.cv_outputs) > DacChannels
  /\ hd.cv_outputs[Len(hd.cv_outputs)].pin # hd.cv_outputs[1].pin
  /\ last.result = DacInitText

\* the kinds that carry label aliases: the list read, the lines before the
\* aliases, the element type and the array name
AliasKinds ==
  {[op |-> "generateAnalogControls", header |-> 2, type |-> "AnalogControl",
    array |-> "controls"],
   [op |-> "generateEncoders", header |-> 3, type |-> "Encoder",
    array |-> "encoders"],
   [op |-> "generateSwitches", header |-> 2, type |-> "Switch",
    array |-> "switches"],
   [op |-> "generateLeds", header |-> 2, type |-> "Led", array |-> "leds"],
   [op |-> "generateRgbLeds", header |-> 2, type |-> "RgbLed",
    array |-> "rgb_leds"],
   [op |-> "generateGateInputs", header |-> 2, type |-> "GateIn",
    array |-> "gate_inputs"]}

ListOfKind(op) ==
  IF op = "generateAnalogControls" THEN MergedSlots
  ELSE LET f == CHOOSE g \in ListsRead(op) : TRUE
       IN  IF f \in DOMAIN hd THEN hd[f] ELSE <<>>

\* C8: for merged analog, encoder, switch, LED, RGB LED and gate input, the
\* Declaration fragment holds, after its header lines, exactly one alias
\* reference per (entry, label) pair, bound to the slot of the entry's index,
\* in entry order and within an entry in label order; an entry without labels
\* yields none and a repeated label is emitted again.
C8_LabelAliases ==
  \A kind \in AliasKinds :
    (/\ last.op = kind.op
     /\ last.context = "DECLARATION"
     /\ Len(ListOfKind(kind.op)) > 0)
      => AliasesExactly(last.code, kind.header, ListOfKind(kind.op),
                        kind.type, kind.array)

C8_Witness ==
  /\ last.op = "generateSwitches" /\ last.context = "DECLARATION"
  /\ "switches" \in DOMAIN hd /\ Len(hd.switches) = 2
  /\ hd.switches[1].labels = <<"foo">>
  /\ hd.switches[2].labels = <<"bar", "foo", "bar">>
  /\ last.code = <<"//  switches declaration", "Switch switches[2];",
                   "Switch& foo = switches[0];", "Switch& bar = switches[1];",
                   "Switch& foo = switches[1];", "Switch& bar = switches[1];">>

\* the name the specification gives the display variable of entry idx
DisplayVariable(idx) ==
  IF idx = 0 THEN "display" ELSE "display" \o ToString(idx)

\* C9: the display variable of entry 0 is display and that of entry i > 0 is
\* display followed by i; the Declaration fragment declares entry i under
\* that name, the Initialization fragment initializes it under that name,
\* and the names of the entries are pairwise distinct.
C9_DisplayNames ==
  (last.op = "generateOledDisplays" /\ ~MissingOrEmpty("oled_displays")) =>
    \A i \in 1..Len(hd.oled_displays) :
      /\ last.context = "DECLARATION" =>
           /\ Len(last.code) = 1 + Len(hd.oled_displays)
           /\ last.code[1 + i]
                = "OledDisplay<" \o hd.oled_displays[i].driver_name \o "> "
                    \o DisplayVariable(i - 1) \o ";"
      /\ last.context = "INITIALIZATION" =>
           Cardinality({k \in 1..Len(last.code) :
                          last.code[k]
                            = DisplayVariable(i - 1) \o ".Init(display_config"
                                \o ToString(i - 1) \o ");"}) = 1
      /\ \A j \in 1..Len(hd.oled_displays) :
           j # i => DisplayVariable(j - 1) # DisplayVariable(i - 1)

C9_Witness ==
  /\ last.op = "generateOledDisplays" /\ last.context = "DECLARATION"
  /\ "oled_displays" \in DOMAIN hd /\ Len(hd.oled_displays) = 2
  /\ last.code[2] = "OledDisplay<SSD130xI2c128x64Driver> display;"
  /\ last.code[3] = "OledDisplay<SSD130x4WireSpi128x32Driver> display1;"

\* every display entry carries the driver name derived from its own fields
DriverNamesDerived(description) ==
  "oled_displays" \in DOMAIN description =>
    \A i \in 1..Len(description.oled_displays) :
      LET e == description.oled_displays[i]
      IN  /\ "driver_name" \in DOMAIN e
          /\ e.driver_name = e.driver \o e.transport \o e.dimensions \o "Driver"

\* C10: every step that runs generateOledDisplays (directly, in any phase,
\* or within generateCustomHardwareImpl) leaves every entry of a non-empty
\* display list with driver_name = driver, transport, dimensions, "Driver"
\* concatenated, whatever driver_name it carried before, and every later
\* step keeps it so.
C10_DriverNameRecomputed ==
  [][(last'.op \in {"generateOledDisplays", Impl} \/ DriverNamesDerived(hd))
       => DriverNamesDerived(hd')]_vars

C10_Witness ==
  /\ last.op = "generateOledDisplays"
  /\ "oled_displays" \in DOMAIN hd /\ Len(hd.oled_displays) = 2
  /\ hd.oled_displays[1].dimensions = "98x16"
  /\ hd.oled_displays[1].driver_name = "SSD130xI2c98x16Driver"
  /\ hd.oled_displays[2].dimensions = "128x64"
  /\ hd.oled_displays[2].driver_name = "SSD130xI2c128x64Driver"

\* the description with one list replaced, or removed
Replaced(description, field, list) ==
  IF list.def THEN (field :> list.val) @@ description
  ELSE [f \in DOMAIN description \ {field} |-> description[f]]

\* a list as it may be handed in: missing, or any list of the kind
ListsOrMissing(field) == {Undefined} \cup {Some(l) : l \in ListsOf(field)}

\* C11: generateGateOutputs and generateMidiHandlers return the empty
\* fragment for a missing, an empty and a non-empty list at every phase, and
\* the text generateCustomHardwareImpl returns is the text it returns for the
\* same description with any other gate_outputs or midi_handlers list.
C11_PlaceholdersEmpty ==
  /\ last.op \in {"generateGateOutputs", "generateMidiHandlers"}
       => last.result = ""
  /\ last.op = Impl =>
       \A f \in {"gate_outputs", "midi_handlers"} :
         \A list \in ListsOrMissing(f) :
           generateCustomHardwareImpl(Replaced(hd, f, list)) = last.result

C11_Witness ==
  /\ last.op = Impl
  /\ AllKindsPresent
  /\ generateCustomHardwareImpl(
       Replaced(Replaced(hd, "gate_outputs", Undefined), "midi_handlers",
                Undefined)) = last.result

\* an entry without its driver_name field
WithoutDriverName(entry) ==
  [f \in DOMAIN entry \ {"driver_name"} |-> entry[f]]

\* two descriptions differ in nothing but the driver_name of display entries
SameButDriverNames(before, after) ==
  /\ DOMAIN after = DOMAIN before
  /\ \A f \in DOMAIN before :
       /\ Len(after[f]) = Len(before[f])
       /\ \A i \in 1..Len(before[f]) :
            IF f = "oled_displays"
            THEN WithoutDriverName(after[f][i])
                   = WithoutDriverName(before[f][i])
            ELSE after[f][i] = before[f][i]

\* C12: a generateCustomHardwareImpl call leaves the description with the
\* same lists, of the same length, with the same entries in the same order
\* and the same value in every field other than driver_name of a display
\* entry; a CV-output list of more than two entries keeps all of them.
C12_DescriptionKept ==
  [][last'.op = Impl => SameButDriverNames(hd, hd')]_vars

C12_Witness ==
  /\ last.op = Impl
  /\ "cv_outputs" \in DOMAIN hd /\ Len(hd.cv_outputs) > DacChannels
  /\ last.frags[1 + Len(DeclarationOrder) + 2] = DacInitText

\* the phases in which a generator contributes nothing
ContributesNothing(op, context) ==
  \/ context = "INCLUDE" /\ op # "generateOledDisplays"
  \/ context = "PROCESSING"
       /\ op \in {"generateGateInputs", "generateOledDisplays",
                  "generateCvOutputs"}
  \/ op \in {"generateGateOutputs", "generateMidiHandlers"}

\* C13: every generator call, with a missing, an empty or a non-empty list
\* and at any of the four phases, returns a text fragment and raises no
\* error, and the fragment is empty for a phase in which the kind
\* contributes nothing.
C13_NeverAnError ==
  last.op \in Generators =>
    /\ "error" \notin DOMAIN last
    /\ "result" \in DOMAIN last
    /\ ContributesNothing(last.op, last.context) => last.result = ""

\* the position of a phase in the order Include, Declaration,
\* Initialization, Processing
PhaseRank(context) ==
  CASE context = "INCLUDE" -> 1
    [] context = "DECLARATION" -> 2
    [] context = "INITIALIZATION" -> 3
    [] context = "PROCESSING" -> 4

\* the region of the artifact a line of the template opens, 0 for a line
\* that opens none: includes, type declaration, initialization routine,
\* per-tick routines
RegionOpened(line) ==
  CASE line = "#include \"daisy_seed.h\"" -> 1
    [] line = "typedef struct {" -> 2
    [] line = "    void Init(bool boost) " -> 3
    [] line \in {"    void ProcessAnalogControls()",
                 "    void ProcessDigitalControls()",
                 "    void UpdateLeds()"} -> 4
    [] OTHER -> 0

\* the region the text is in where fragment k is inserted
RECURSIVE RegionAt(_)
RegionAt(k) ==
  LET opened == {RegionOpened(TemplateLits[k][n]) :
                   n \in 1..Len(TemplateLits[k])} \ {0}
  IN  IF opened # {} THEN CHOOSE r \in opened : \A q \in opened : q <= r
      ELSE IF k = 1 THEN 0
      ELSE RegionAt(k - 1)

\* the template text with the fragments inserted, pieces i..j
RECURSIVE Assembled(_, _, _)
Assembled(frags, i, j) ==
  IF i = j
  THEN Join(TemplateLits[i], "\n") \o (IF i <= Len(frags) THEN frags[i] ELSE "")
  ELSE Assembled(frags, i, (i + j) \div 2)
         \o Assembled(frags, ((i + j) \div 2) + 1, j)

\* C14: within one generateCustomHardwareImpl call the generators are
\* invoked in phase order (the Include request, then every Declaration
\* request, then every Initialization request, then every Processing
\* request), and the fragment of each request stands in the artifact in the
\* region of its phase: includes, type declaration, initialization routine,
\* per-tick routines, in that order.
C14_PhaseOrder ==
  last.op = Impl =>
    /\ \A i \in 1..Len(TemplateCalls) :
         /\ \A j \in (i + 1)..Len(TemplateCalls) :
              PhaseRank(TemplateCalls[i].context)
                <= PhaseRank(TemplateCalls[j].context)
         /\ RegionAt(i) = PhaseRank(TemplateCalls[i].context)
         /\ last.frags[i]
              = Returns(TemplateCalls[i], hd)
    /\ \A c \in Context : \E i \in 1..Len(TemplateCalls) :
         TemplateCalls[i].context = c
    /\ last.result = Assembled(last.frags, 1, Len(TemplateLits))

C14_Witness ==
  /\ last.op = Impl
  /\ AllKindsPresent
  /\ last.frags[1] = "#include \"dev/oled_ssd130x.h\"\n"
  /\ last.frags[2] # "" /\ TemplateCalls[2].context = "DECLARATION"
  /\ last.frags[12] # "" /\ TemplateCalls[12].context = "INITIALIZATION"
  /\ last.frags[22] # "" /\ TemplateCalls[22].context = "PROCESSING"

\* a flag as the wrapper initialization takes it: false when it is missing
Coerced(entry, field) ==
  IF field \in DOMAIN entry THEN (IF entry[field] THEN "true" ELSE "false")
  ELSE "false"

\* the statements of the analog Initialization fragment for n slots
ChannelConfig(i) ==
  "cfg[" \o ToString(i) \o "].InitSingle(seed.GetPin("
    \o ToString(MergedSlots[i + 1].pin) \o "));"

WrapperInit(i) ==
  "controls[" \o ToString(i) \o "].Init(seed.adc.GetPtr(" \o ToString(i)
    \o "), seed.AudioCallbackRate(), " \o Coerced(MergedSlots[i + 1], "flip")
    \o ", " \o Coerced(MergedSlots[i + 1], "invert") \o ");"

BatchInit(n) == "seed.adc.Init(cfg, " \o ToString(n) \o ");"

SamplingStart == "seed.adc.Start();"

\* C15: for a merged analog list of n > 0 entries the Initialization
\* fragment emits, after the declaration of the configuration array, the n
\* channel configurations cfg[0..n-1] in index order, then one batch
\* converter initialization over n configurations, then the n wrapper
\* initializations controls[0..n-1] in index order, each with its own data
\* pointer and with flip and invert as booleans (false when missing), then one
\* sampling start, which is the last statement; each of the two single
\* statements occurs exactly once.
C15_AnalogInitOrder ==
  (/\ last.op = "generateAnalogControls"
   /\ last.context = "INITIALIZATION"
   /\ Len(MergedSlots) > 0) =>
    LET n == Len(MergedSlots)
        code == last.code
    IN  /\ SubSeq(code, 3, Len(code) - 1)
             = [i \in 1..n |-> ChannelConfig(i - 1)] \o <<BatchInit(n)>>
                 \o [i \in 1..n |-> WrapperInit(i - 1)] \o <<SamplingStart>>
        /\ code[1] = "// BEGIN - analog_controls initialization"
        /\ code[Len(code)] = "// END - analog_controls initialization"
        /\ Cardinality({k \in 1..Len(code) : code[k] = BatchInit(n)}) = 1
        /\ Cardinality({k \in 1..Len(code) : code[k] = SamplingStart}) = 1
        /\ last.result = Join(code, "\n        ")

C15_Witness ==
  /\ last.op = "generateAnalogControls" /\ last.context = "INITIALIZATION"
  /\ Len(MergedSlots) = MaxLen + 1
  /\ \E i \in 1..Len(MergedSlots) : "flip" \notin DOMAIN MergedSlots[i]
  /\ \E i \in 1..Len(MergedSlots) :
       "flip" \in DOMAIN MergedSlots[i] /\ MergedSlots[i].flip
  /\ last.code[Len(last.code) - 1] = SamplingStart

\* the SSD130x header include
Ssd130xInclude == "#include \"dev/oled_ssd130x.h\"\n"

\* the display entries that select the SSD130x driver family
Ssd130xEntries ==
  IF "oled_displays" \in DOMAIN hd
  THEN {i \in 1..Len(hd.oled_displays) : hd.oled_displays[i].driver = "SSD130x"}
  ELSE {}

\* C16: the Include fragment of the display generator is the SSD130x header
\* include, once, when at least one display entry has driver SSD130x, however
\* many entries have it, and is empty otherwise; no other generator returns
\* an include, and the only Include request of generateCustomHardwareImpl is
\* the display one.
C16_IncludeOnce ==
  /\ (last.op = "generateOledDisplays" /\ last.context = "INCLUDE") =>
       /\ last.result = IF Ssd130xEntries # {} THEN Ssd130xInclude ELSE ""
       /\ last.code = IF Ssd130xEntries # {} THEN <<Ssd130xInclude>> ELSE <<>>
  /\ (last.op \in Generators \ {"generateOledDisplays"}
        /\ last.context = "INCLUDE") => last.result = ""
  /\ last.op = Impl =>
       /\ last.frags[1] = IF Ssd130xEntries # {} THEN Ssd130xInclude ELSE ""
       /\ \A k \in 1..Len(TemplateCalls) :
            TemplateCalls[k].context = "INCLUDE"
              => k = 1 /\ TemplateCalls[k].gen = "generateOledDisplays"

C16_Witness ==
  /\ last.op = "generateOledDisplays" /\ last.context = "INCLUDE"
  /\ Cardinality(Ssd130xEntries) = MaxLen
  /\ last.result = Ssd130xInclude

\* the transport bindings the specification gives entry idx
TransportBindings(entry, idx) ==
  LET tc == "display_config" \o ToString(idx)
              \o ".driver_config.transport_config."
  IN  IF entry.transport = "4WireSpi" THEN
        <<tc \o "pin_config.dc = seed.GetPin("
            \o ToString(entry["4_wire_spi_config"].pin_dc) \o ");",
          tc \o "pin_config.reset = seed.GetPin("
            \o ToString(entry["4_wire_spi_config"].pin_reset) \o ");">>
      ELSE IF entry.transport = "I2c" THEN
        <<tc \o "i2c_address = " \o entry.i2c_config.address \o ";",
          tc \o "i2c_config.periph = I2CHandle::Config::Peripheral::"
            \o entry.i2c_config.peripheral \o ";",
          tc \o "i2c_config.speed = I2CHandle::Config::Speed::"
            \o entry.i2c_config.speed \o ";",
          tc \o "i2c_config.pin_config.sda = seed.GetPin("
            \o ToString(entry.i2c_config.pin_sda) \o ");",
          tc \o "i2c_config.pin_config.scl = seed.GetPin("
            \o ToString(entry.i2c_config.pin_scl) \o ");">>
      ELSE <<>>

\* the number of bindings of a transport: 2 pins, or address, 2 selectors
\* and 2 pins, or none
BindingCount(entry) ==
  IF entry.transport = "4WireSpi" THEN 2
  ELSE IF entry.transport = "I2c" THEN 5
  ELSE 0

\* the line of the fragment before the lines of entry i: each entry takes a
\* comment, its configuration declaration, its bindings and its Init call
RECURSIVE EntryStart(_, _)
EntryStart(list, i) ==
  IF i <= 1 THEN 1
  ELSE EntryStart(list, i - 1) + 3 + BindingCount(list[i - 1])

\* C17: the display Initialization fragment handles the entries in list
\* order, and for entry i emits, in this order, the declaration of its
\* configuration value, its transport bindings (exactly the 2 pin bindings for
\* 4WireSpi; exactly the address, the peripheral selector, the speed selector
\* and the 2 pin bindings for I2c; none for another transport) and, last, the
\* Init call of its display variable with its configuration value.
C17_DisplayInitOrder ==
  (/\ last.op = "generateOledDisplays"
   /\ last.context = "INITIALIZATION"
   /\ ~MissingOrEmpty("oled_displays")) =>
    LET list == hd.oled_displays
        code == last.code
    IN  /\ Len(code) = EntryStart(list, Len(list) + 1) + 1
        /\ \A i \in 1..Len(list) :
             LET at == EntryStart(list, i)
                 count == BindingCount(list[i])
                 idx == ToString(i - 1)
             IN  /\ Len(TransportBindings(list[i], i - 1)) = count
                 /\ code[at + 1] = "// Display " \o idx
                 /\ code[at + 2]
                      = "OledDisplay<" \o list[i].driver \o list[i].transport
                          \o list[i].dimensions \o "Driver>::Config "
                          \o "display_config" \o idx \o ";"
                 /\ SubSeq(code, at + 3, at + 2 + count)
                      = TransportBindings(list[i], i - 1)
                 /\ code[at + 3 + count]
                      = DisplayVariable(i - 1) \o ".Init(display_config"
                          \o idx \o ");"

C17_Witness ==
  /\ last.op = "generateOledDisplays" /\ last.context = "INITIALIZATION"
  /\ "oled_displays" \in DOMAIN hd /\ Len(hd.oled_displays) = 2
  /\ hd.oled_displays[1].transport = "I2c"
  /\ hd.oled_displays[2].transport = "4WireSpi"
  /\ last.code[9] = "display.Init(display_config0);"
  /\ last.code[12]
       = "display_config1.driver_config.transport_config.pin_config.dc"
           \o " = seed.GetPin(9);"
  /\ last.code[14] = "display1.Init(display_config1);"

\* the name a kind's comments carry
KindName(op) ==
  CASE op = "generateAnalogControls" -> "analog_controls"
    [] op = "generateEncoders" -> "encoders"
    [] op = "generateSwitches" -> "switches"
    [] op = "generateLeds" -> "leds"
    [] op = "generateRgbLeds" -> "rgb_leds"
    [] op = "generateGateInputs" -> "gate_inputs"

\* the comment lines of a kind's fragments; they reference no slot
CommentLines(op) ==
  {"// " \o KindName(op) \o " declaration",
   "//  " \o KindName(op) \o " declaration",
   "//" \o KindName(op) \o " declaration",
   "// BEGIN - " \o KindName(op) \o " initialization",
   "// END - " \o KindName(op) \o " initialization",
   "// END -  " \o KindName(op) \o " initialization",
   "// process " \o KindName(op)}

\* the statement that initializes slot i of a kind
InitStatement(op, list, i) ==
  LET e == list[i + 1]
      s == ToString(i)
  IN  CASE op = "generateAnalogControls" -> WrapperInit(i)
        [] op = "generateEncoders" ->
             "encoders[" \o s \o "].Init(seed.GetPin(" \o ToString(e.pin_a)
               \o "), seed.GetPin(" \o ToString(e.pin_b) \o "), seed.GetPin("
               \o ToString(e.pin_switch) \o "), seed.AudioCallbackRate());"
        [] op = "generateSwitches" ->
             "switches[" \o s \o "].Init(seed.GetPin(" \o ToString(e.pin)
               \o "), seed.AudioCallbackRate(), Switch::Type::" \o e.type
               \o ", Switch::Polarity::" \o e.polarity \o ", Switch::Pull::"
               \o e.pull \o ");"
        [] op = "generateLeds" ->
             "leds[" \o s \o "].Init(seed.GetPin(" \o ToString(e.pin) \o "), "
               \o Coerced(e, "invert") \o ");"
        [] op = "generateRgbLeds" ->
             "rgb_leds[" \o s \o "].Init(seed.GetPin(" \o ToString(e.pin_r)
               \o "), seed.GetPin(" \o ToString(e.pin_g) \o "), seed.GetPin("
               \o ToString(e.pin_b) \o "), " \o Coerced(e, "invert") \o ");"
        [] op = "generateGateInputs" ->
             "gate_inputs[" \o s \o "].Init(&gate_input_pin);"

\* the kinds that have a processing fragment, with the step taken per slot
ProcessStep(op) ==
  CASE op = "generateAnalogControls" -> "Process"
    [] op = "generateEncoders" -> "Debounce"
    [] op = "generateSwitches" -> "Debounce"
    [] op = "generateLeds" -> "Update"
    [] op = "generateRgbLeds" -> "Update"
    [] op = "generateGateInputs" -> ""

ProcessStatement(kind, i) ==
  kind.array \o "[" \o ToString(i) \o "]." \o ProcessStep(kind.op) \o "();"

\* the lines of a fragment that reference slot i of the kind's arrays
SlotLines(kind, list, i) ==
  {InitStatement(kind.op, list, i), ProcessStatement(kind, i)}
    \cup {kind.type \o "& " \o list[i + 1].labels[j] \o " = " \o kind.array
            \o "[" \o ToString(i) \o "];" : j \in 1..LabelCount(list[i + 1])}
    \cup (IF kind.op = "generateAnalogControls" THEN {ChannelConfig(i)}
          ELSE {})
    \cup (IF kind.op = "generateEncoders" /\ i = 0
          THEN {"Encoder& encoder = encoders[0];"} ELSE {})

\* the statements of a fragment that reference no slot
SlotFreeLines(kind, list) ==
  CommentLines(kind.op)
    \cup (IF kind.op = "generateAnalogControls"
          THEN {"AdcChannelConfig cfg[" \o ToString(Len(list)) \o "];",
                BatchInit(Len(list)), SamplingStart}
          ELSE {})
    \cup (IF kind.op = "generateGateInputs"
          THEN {"dsy_gpio_pin gate_input_pin;"}
                 \cup {"gate_input_pin = seed.GetPin("
                         \o ToString(list[i].pin) \o ");" : i \in 1..Len(list)}
          ELSE {})

Occurrences(code, line) == Cardinality({k \in 1..Len(code) : code[k] = line})

\* C18: for merged analog, encoder, switch, LED, RGB LED and gate input with
\* a list of n > 0 entries, the array is declared with size n, every line of
\* every fragment that references a slot (initialization, processing, label
\* alias, the encoder reference to index 0) references a slot in 0..n-1, each
\* slot 0..n-1 is initialized exactly once, and processed exactly once where
\* the kind has a processing fragment.
C18_SlotsInRange ==
  \A kind \in AliasKinds :
    (last.op = kind.op /\ Len(ListOfKind(kind.op)) > 0) =>
      LET list == ListOfKind(kind.op)
          n == Len(list)
          code == last.code
          declared == kind.type \o " " \o kind.array \o "[" \o ToString(n)
                        \o "];"
      IN  /\ \A k \in 1..Len(code) :
               \/ code[k] \in SlotFreeLines(kind, list) \cup {declared}
               \/ \E i \in 0..(n - 1) : code[k] \in SlotLines(kind, list, i)
          /\ last.context = "DECLARATION" => Occurrences(code, declared) = 1
          /\ last.context = "INITIALIZATION" =>
               \A i \in 0..(n - 1) :
                 Occurrences(code, InitStatement(kind.op, list, i)) = 1
          /\ last.context = "PROCESSING" =>
               IF ProcessStep(kind.op) = "" THEN code = <<>>
               ELSE /\ Len(code) = n + 1
                    /\ \A i \in 0..(n - 1) :
                         Occurrences(code, ProcessStatement(kind, i)) = 1

C18_Witness ==
  /\ last.op = "generateEncoders" /\ last.context = "DECLARATION"
  /\ "encoders" \in DOMAIN hd /\ Len(hd.encoders) = MaxLen
  /\ "labels" \in DOMAIN hd.encoders[MaxLen]
  /\ last.code[2] = "Encoder encoders[" \o ToString(MaxLen) \o "];"
  /\ last.code[3] = "Encoder& encoder = encoders[0];"
  /\ last.code[Len(last.code)]
       = "Encoder& menu = encoders[" \o ToString(MaxLen - 1) \o "];"

====
